---------------------------- MODULE Spec2Model ----------------------------
(***************************************************************************)
(* A model of watermark_app.py: a Streamlit script that, once the session  *)
(* is authenticated, stores the uploaded product images in a working       *)
(* directory, pastes a logo and a tiled text watermark on each of them and *)
(* saves the results in an output directory.                               *)
(*                                                                         *)
(* Strings the code inspects (file names, paths) are sequences of          *)
(* one-character strings, so that lower(), endswith(), splitext(),         *)
(* basename() and the substring test are computed, not assumed.  A MIME    *)
(* type is the sequence of its '/'-separated parts.                        *)
(***************************************************************************)
EXTENDS Integers, Sequences, FiniteSets, TLC

(***************************************************************************)
(* Bounds of the model.                                                    *)
(***************************************************************************)
\* product image sizes 1..MaxDim (plus the sizes named in the specification)
MaxDim == 12
\* logo sizes 0..MaxLogo (plus the logo named in the specification)
MaxLogo == 4
\* text widths 0..MaxTextWidth
MaxTextWidth == 5
\* canvas widths 1..MaxCanvas in the tiling specification
MaxCanvas == 24
\* the largest horizontal spacing drawn (the slider goes on to 200)
MaxSpacing == 20
\* the longest list of uploaded files of a single run (SpecRun)
MaxUploads == 5
\* the longest list of uploaded files in a session of several runs (Spec)
MaxSessionUploads == 2

(***************************************************************************)
(* Strings.                                                                *)
(***************************************************************************)
UpperCase == <<"A", "B", "C", "D", "E", "F", "G", "H", "I", "J", "K", "L", "M",
               "N", "O", "P", "Q", "R", "S", "T", "U", "V", "W", "X", "Y", "Z">>
LowerCase == <<"a", "b", "c", "d", "e", "f", "g", "h", "i", "j", "k", "l", "m",
               "n", "o", "p", "q", "r", "s", "t", "u", "v", "w", "x", "y", "z">>

\* str.lower() on one character
LowerChar(c) ==
    IF \E i \in 1..Len(UpperCase) : UpperCase[i] = c
    THEN LowerCase[CHOOSE i \in 1..Len(UpperCase) : UpperCase[i] = c]
    ELSE c

\* str.lower()
Lower(s) == [i \in 1..Len(s) |-> LowerChar(s[i])]

\* str.endswith(suffix)
EndsWith(s, suffix) ==
    /\ Len(suffix) <= Len(s)
    /\ SubSeq(s, Len(s) - Len(suffix) + 1, Len(s)) = suffix

\* str.startswith(prefix)
StartsWith(s, prefix) ==
    /\ Len(prefix) <= Len(s)
    /\ SubSeq(s, 1, Len(prefix)) = prefix

\* sub in s
Contains(s, sub) ==
    \E i \in 1..(Len(s) - Len(sub) + 1) : SubSeq(s, i, i + Len(sub) - 1) = sub

\* the index of the last occurrence of character c in s, 0 when there is none
LastIndex(s, c) ==
    IF \E i \in 1..Len(s) : s[i] = c
    THEN CHOOSE i \in 1..Len(s) : s[i] = c /\ \A j \in (i+1)..Len(s) : s[j] # c
    ELSE 0

\* os.path.basename
BaseName(p) == SubSeq(p, LastIndex(p, "/") + 1, Len(p))

\* os.path.dirname
DirName(p) ==
    IF LastIndex(p, "/") = 0 THEN <<>> ELSE SubSeq(p, 1, LastIndex(p, "/") - 1)

\* os.path.join of two parts
PathJoin(a, b) == IF a = <<>> THEN b ELSE a \o <<"/">> \o b

\* os.path.splitext(name)[0] of a base name: the extension starts at the last
\* dot, unless that dot only follows leading dots
SplitExtStem(name) ==
    LET d == LastIndex(name, ".")
    IN  IF d = 0 \/ \A j \in 1..(d - 1) : name[j] = "."
        THEN name
        ELSE SubSeq(name, 1, d - 1)

(***************************************************************************)
(* Constants of the program.                                               *)
(***************************************************************************)
PRODUCTS_DIR == <<"p", "r", "o", "d", "u", "c", "t", "s">>
OUTPUT_DIR == <<"b", "r", "a", "n", "d", "e", "d", "_",
                "p", "r", "o", "d", "u", "c", "t", "s">>
DEFAULT_LOGO_SCALE_PCT == 15
DEFAULT_PADDING == 30
DEFAULT_BACKDROP_OFFSET == <<2, 2>>
\* ALLOWED_IMAGE_TYPES, as MIME subtypes and as the suffixes f".{ext}"
ALLOWED_IMAGE_TYPES == {"png", "jpg", "jpeg"}
ALLOWED_IMAGE_SUFFIXES == {<<".", "p", "n", "g">>, <<".", "j", "p", "g">>,
                           <<".", "j", "p", "e", "g">>}
KNOWN_ZIP_MIMES == {<<"application", "zip">>, <<"application", "x-zip">>,
                    <<"application", "x-zip-compressed">>}
ZIP_SUFFIX == <<".", "z", "i", "p">>
BRANDED_SUFFIX == <<"_", "b", "r", "a", "n", "d", "e", "d", ".", "p", "n", "g">>
MACOSX == <<"_", "_", "m", "a", "c", "o", "s", "x">>


(***************************************************************************)
(* Floating point.  logo_scale and aspect_ratio are IEEE doubles: the      *)
(* double nearest p/q.  int(w * (p/q)) is computed as the code computes    *)
(* it: p/q is rounded to 53 bits, the product is rounded to 53 bits, and   *)
(* int() cuts the fraction.  The result is floor(w*p/q), except that an    *)
(* exact integer w*p/q = n becomes n - 1 when p/q was rounded down and     *)
(* the product falls nearer to the double below n than to n.               *)
(***************************************************************************)
RECURSIVE Pow2(_)
Pow2(e) == IF e <= 0 THEN 1 ELSE 2 * Pow2(e - 1)

\* 2^e mod q
RECURSIVE Pow2Mod(_, _)
Pow2Mod(e, q) == IF e <= 0 THEN 1 % q ELSE (2 * Pow2Mod(e - 1, q)) % q

\* floor(log2(a/b)) for a, b >= 1
RECURSIVE FloorLog2Up(_, _, _)
FloorLog2Up(a, b, g) == IF a >= 2 * b * Pow2(g) THEN FloorLog2Up(a, b, g + 1) ELSE g
RECURSIVE FloorLog2Down(_, _, _)
FloorLog2Down(a, b, g) == IF a * Pow2(g) < b THEN FloorLog2Down(a, b, g + 1) ELSE 0 - g
FloorLog2(a, b) == IF a >= b THEN FloorLog2Up(a, b, 0) ELSE FloorLog2Down(a, b, 1)

IsPow2(n) == \E e \in 0..30 : Pow2(e) = n

\* whether the double product w * (p/q), whose exact value is the integer
\* n = w*p/q >= 1, is rounded to a double below n
ProductBelow(w, p, q) ==
    LET n == (w * p) \div q
        g == FloorLog2(p, q)
        \* p/q = M / 2^E with 2^52 <= M < 2^53; R is what the rounding of M drops
        E == 52 - g
        R == (p * Pow2Mod(E, q)) % q
        j == FloorLog2(n, 1)
        \* half the gap between n and the double below it is 2^(t-E) 
        t == j - g - 1 - (IF IsPow2(n) THEN 1 ELSE 0)
    IN  /\ R # 0
        /\ 2 * R < q
        /\ IF t >= 0 THEN w * R > q * Pow2(t) ELSE w * R * Pow2(0 - t) > q

\* int(w * (p/q)) for integers w >= 0, p >= 0, q >= 1
IntMulDiv(w, p, q) ==
    LET n == (w * p) \div q
    IN  IF (w * p) % q # 0 \/ n = 0 THEN n
        ELSE IF ProductBelow(w, p, q) THEN n - 1 ELSE n

\* round(w * (p/q)): to the nearest integer
RoundMulDiv(w, p, q) == (2 * w * p + q) \div (2 * q)

(***************************************************************************)
(* The logo: target size (lines 305-309), position (318-321), backdrop     *)
(* and logo pastes (323-330).  The scale is given in hundredths.           *)
(***************************************************************************)
TargetWidthNoFloor(width, scale_pct) == IntMulDiv(width, scale_pct, 100)

TargetWidthRounded(width, scale_pct) == IF RoundMulDiv(width, scale_pct, 100) > 1 THEN RoundMulDiv(width, scale_pct, 100) ELSE 1

\* target_width = max(1, int(product_img.width * logo_scale))
TargetWidth(width, scale_pct) ==
    IF IntMulDiv(width, scale_pct, 100) > 1 THEN IntMulDiv(width, scale_pct, 100) ELSE 1

\* aspect_ratio = logo.height / logo.width if logo.width > 0 else 1
\* target_height = max(1, int(target_width * aspect_ratio))
TargetHeight(target_width, logo_w, logo_h) ==
    LET h == IF logo_w > 0 THEN IntMulDiv(target_width, logo_h, logo_w)
                           ELSE target_width
    IN  IF h > 1 THEN h ELSE 1

LogoPositionClamped(width, height, rw, rh, padding) ==
    << IF width - rw - padding < 0 THEN 0 ELSE width - rw - padding,
       IF height - rh - padding < 0 THEN 0 ELSE height - rh - padding >>

\* logo_position = (width - logo_resized.width - padding,
\*                  height - logo_resized.height - padding)
LogoPosition(width, height, rw, rh, padding) ==
    << width - rw - padding, height - rh - padding >>

\* shadow_position
ShadowPosition(logo_position) ==
    << logo_position[1] + DEFAULT_BACKDROP_OFFSET[1],
       logo_position[2] + DEFAULT_BACKDROP_OFFSET[2] >>

Paste(what, at, size) == [what |-> what, at |-> at, size |-> size]

\* what lines 305-330 paste on the watermark layer, in order
LogoLayer(width, height, logo_w, logo_h, scale_pct, padding, backdrop) ==
    LET tw == TargetWidth(width, scale_pct)
        th == TargetHeight(tw, logo_w, logo_h)
        at == LogoPosition(width, height, tw, th, padding)
    IN  (IF backdrop THEN << Paste("backdrop", ShadowPosition(at), <<tw, th>>) >>
                     ELSE << >>)
        \o << Paste("logo", at, <<tw, th>>) >>

(***************************************************************************)
(* The repeating text (lines 340-352).                                     *)
(***************************************************************************)
\* step = text_width + horizontal_spacing; step = max(1, step)
TileStepFloorZero(text_width, spacing) ==
    IF text_width + spacing > 0 THEN text_width + spacing ELSE 0

TileStep(text_width, spacing) ==
    IF text_width + spacing > 1 THEN text_width + spacing ELSE 1

StartXRight(text_width, step) == text_width % step

\* start_x = -(text_width % step if step > 0 else 0)
StartX(text_width, step) == IF step > 0 THEN 0 - (text_width % step) ELSE 0

\* text_y for the three positions
TextY(position, height, text_height, padding) ==
    IF position = "Top" THEN padding
    ELSE IF position = "Middle" THEN (height - text_height) \div 2
    ELSE height - text_height - padding

\* list(range(start, stop, step)) for step >= 1
RECURSIVE Range(_, _, _)
Range(start, stop, step) ==
    IF start >= stop THEN << >> ELSE << start >> \o Range(start + step, stop, step)

\* the x_text values of the drawing loop
TileOrigins(text_width, spacing, width) ==
    LET step == TileStep(text_width, spacing)
    IN  Range(StartX(text_width, step), width + text_width, step)

(***************************************************************************)
(* State.                                                                  *)
(*   lg, tl : the logo and the text computation of one image, step by step *)
(*            (SpecLogo and SpecTile)                                      *)
(* The session and its script runs (Spec):                                 *)
(*   secrets, session_state : st.secrets and st.session_state              *)
(*   widgets        : the input widgets the last run rendered              *)
(*   logo_file, uploaded_files, brand_name : the values of the uploaders   *)
(*                    and of the watermark text input                      *)
(*   available      : the files the user has at hand to upload             *)
(*   font_file      : arial.ttf in the script directory: "missing", or    *)
(*                    there and "loadable", "unreadable" (truetype raises  *)
(*                    an IOError) or "broken" (it raises something else)   *)
(*   pc, stop_at    : the position of the running script ("idle": no run), *)
(*                    and where the last run ended                         *)
(*   messages       : the messages the run has shown                       *)
(*   products_dir, output_dir : the two working directories                *)
(*   any_processing_error, upload_index : locals of prepare_input_images             *)
(*   files_to_process_paths, i, processed_files, processed_count,          *)
(*   error_count    : locals of the processing loop                        *)
(*   zip_entries    : the archive behind the download button               *)
(* History:                                                                *)
(*   old_products, old_output : the paths of the files that were in the    *)
(*                    directory when the run started and are still there   *)
(*   attempts       : the images the loop has tried, with their outcome    *)
(*   matched        : a password entry of the session had the right hash   *)
(***************************************************************************)
VARIABLES lg, tl
VARIABLES secrets, session_state, widgets, logo_file, uploaded_files, brand_name,
          available, font_file, pc, stop_at, messages, products_dir, output_dir,
          any_processing_error, upload_index, files_to_process_paths, i, processed_files,
          processed_count, error_count, zip_entries,
          old_products, old_output, attempts, matched

geometry_vars == << lg, tl >>

app_vars == << secrets, session_state, widgets, logo_file, uploaded_files, brand_name,
               available, font_file, pc, stop_at, messages, products_dir, output_dir,
               any_processing_error, upload_index, files_to_process_paths, i, processed_files,
               processed_count, error_count, zip_entries,
               old_products, old_output, attempts, matched >>

vars == << lg, tl, secrets, session_state, widgets, logo_file, uploaded_files,
           brand_name, available, font_file, pc, stop_at, messages, products_dir,
           output_dir,
           any_processing_error, upload_index, files_to_process_paths, i, processed_files,
           processed_count, error_count, zip_entries,
           old_products, old_output, attempts, matched >>

LgOff == [pc |-> "off", width |-> 0, height |-> 0, logo_w |-> 0, logo_h |-> 0,
          scale_pct |-> 0, padding |-> 0, backdrop |-> FALSE,
          target_width |-> 0, target_height |-> 0, resized |-> <<0, 0>>,
          logo_position |-> <<0, 0>>, layer |-> << >>]

TlOff == [pc |-> "off", text_width |-> 0, text_height |-> 0, position |-> "Middle",
          spacing |-> 0, width |-> 0, height |-> 0, padding |-> 0,
          step |-> 0, start_x |-> 0, text_y |-> 0, x_text |-> 0, drawn |-> << >>]

EmptyDir == [exists |-> FALSE, files |-> {}]

\* the session and the directories before the first run of the script
FreshSession ==
    /\ session_state = [has_authenticated |-> FALSE, authenticated |-> FALSE,
                        password |-> ""]
    /\ widgets = {}
    /\ logo_file = "none"
    /\ uploaded_files = << >>
    /\ brand_name = <<"J", "h", "u", "m", "J", "h", "u", "m", " ">>
    /\ stop_at = "none"
    /\ messages = {}
    /\ products_dir = EmptyDir
    /\ output_dir = EmptyDir
    /\ any_processing_error = FALSE
    /\ upload_index = 0
    /\ files_to_process_paths = << >>
    /\ i = 0
    /\ processed_files = << >>
    /\ processed_count = 0
    /\ error_count = 0
    /\ zip_entries = << >>
    /\ old_products = {}
    /\ old_output = {}
    /\ attempts = << >>
    /\ matched = FALSE

\* no session: the state of the script's variables in SpecLogo and SpecTile
AppOff ==
    /\ secrets = {}
    /\ available = {}
    /\ font_file = "missing"
    /\ pc = "off"
    /\ FreshSession

(***************************************************************************)
(* The logo of one image, lines 305-330.                                   *)
(***************************************************************************)
\* the scales drawn, in hundredths: 0 < s <= 1 (the slider offers 5..50)
ScalePcts == {1, 5, 15, 16, 29, 50, 100}
\* the horizontal spacings the slider offers: 10, 20, ..., 200
SliderSpacings == {s \in 10..200 : s % 10 = 0}

InitLogo ==
    /\ \E w \in (1..MaxDim) \cup {100, 1000}, h \in {MaxDim, 800},
          lw \in (0..MaxLogo) \cup {200}, lh \in (1..MaxLogo) \cup {100},
          sc \in ScalePcts, pad \in {5, DEFAULT_PADDING}, bd \in BOOLEAN :
            lg = [LgOff EXCEPT !.pc = "size", !.width = w, !.height = h,
                               !.logo_w = lw, !.logo_h = lh, !.scale_pct = sc,
                               !.padding = pad, !.backdrop = bd]
    /\ tl = TlOff
    /\ AppOff

\* lines 305-309
ComputeLogoSize ==
    /\ lg.pc = "size"
    /\ lg' = [lg EXCEPT !.pc = "resize",
                        !.target_width = TargetWidth(lg.width, lg.scale_pct),
                        !.target_height =
                            TargetHeight(TargetWidth(lg.width, lg.scale_pct),
                                         lg.logo_w, lg.logo_h)]
    /\ UNCHANGED << tl, app_vars >>

\* lines 311-316: the resized logo has the target size
ResizeLogo ==
    /\ lg.pc = "resize"
    /\ lg' = [lg EXCEPT !.pc = "position",
                        !.resized = << lg.target_width, lg.target_height >>]
    /\ UNCHANGED << tl, app_vars >>

\* lines 318-321
PlaceLogo ==
    /\ lg.pc = "position"
    /\ lg' = [lg EXCEPT !.pc = "backdrop",
                        !.logo_position =
                            LogoPosition(lg.width, lg.height, lg.resized[1],
                                         lg.resized[2], lg.padding)]
    /\ UNCHANGED << tl, app_vars >>

\* lines 323-327
PasteBackdrop ==
    /\ lg.pc = "backdrop"
    /\ lg.backdrop
    /\ lg' = [lg EXCEPT !.pc = "logo",
                        !.layer = Append(lg.layer,
                                         Paste("backdrop",
                                               ShadowPosition(lg.logo_position),
                                               lg.resized))]
    /\ UNCHANGED << tl, app_vars >>

SkipBackdrop ==
    /\ lg.pc = "backdrop"
    /\ ~lg.backdrop
    /\ lg' = [lg EXCEPT !.pc = "logo"]
    /\ UNCHANGED << tl, app_vars >>

\* line 330
PasteLogo ==
    /\ lg.pc = "logo"
    /\ lg' = [lg EXCEPT !.pc = "done",
                        !.layer = Append(lg.layer,
                                         Paste("logo", lg.logo_position, lg.resized))]
    /\ UNCHANGED << tl, app_vars >>

NextLogo ==
    \/ ComputeLogoSize
    \/ ResizeLogo
    \/ PlaceLogo
    \/ PasteBackdrop
    \/ SkipBackdrop
    \/ PasteLogo

SpecLogo == InitLogo /\ [][NextLogo]_vars

(***************************************************************************)
(* The repeating text of one image, lines 337-352.                         *)
(***************************************************************************)
MinSpacing == 0 - (MaxTextWidth + 2)

InitTile ==
    /\ lg = LgOff
    /\ AppOff
    /\ \/ \E tw \in 0..MaxTextWidth, th \in {0, 3},
             pos \in {"Top", "Middle", "Bottom"},
             sp \in MinSpacing..MaxSpacing, w \in 1..MaxCanvas :
               tl = [TlOff EXCEPT !.pc = "measure", !.text_width = tw,
                                  !.text_height = th, !.position = pos,
                                  !.spacing = sp, !.width = w, !.height = MaxCanvas,
                                  !.padding = 5]
       \* the scenario of the specification: width 120, spacing 50, canvas 1000
       \/ tl = [TlOff EXCEPT !.pc = "measure", !.text_width = 120,
                             !.text_height = 40, !.spacing = 50, !.width = 1000,
                             !.height = 800, !.padding = DEFAULT_PADDING]

\* line 340, true branch, and lines 342-344
TextVertical ==
    /\ tl.pc = "measure"
    /\ tl.text_width > 0 /\ tl.text_height > 0
    /\ tl' = [tl EXCEPT !.pc = "setup",
                        !.text_y = TextY(tl.position, tl.height, tl.text_height,
                                         tl.padding)]
    /\ UNCHANGED << lg, app_vars >>

\* line 340, false branch: no text is drawn
TextSkipped ==
    /\ tl.pc = "measure"
    /\ ~(tl.text_width > 0 /\ tl.text_height > 0)
    /\ tl' = [tl EXCEPT !.pc = "done"]
    /\ UNCHANGED << lg, app_vars >>

\* lines 346-348, and the first value of range()
TileSetup ==
    /\ tl.pc = "setup"
    /\ LET step == TileStep(tl.text_width, tl.spacing)
       IN  tl' = [tl EXCEPT !.pc = "loop", !.step = step,
                            !.start_x = StartX(tl.text_width, step),
                            !.x_text = StartX(tl.text_width, step)]
    /\ UNCHANGED << lg, app_vars >>

\* lines 351-352: one iteration of the loop
DrawTile ==
    /\ tl.pc = "loop"
    /\ tl.x_text < tl.width + tl.text_width
    /\ tl' = [tl EXCEPT !.drawn = Append(tl.drawn, tl.x_text),
                        !.x_text = tl.x_text + tl.step]
    /\ UNCHANGED << lg, app_vars >>

\* line 351: range() is exhausted
TilesDone ==
    /\ tl.pc = "loop"
    /\ ~(tl.x_text < tl.width + tl.text_width)
    /\ tl' = [tl EXCEPT !.pc = "done"]
    /\ UNCHANGED << lg, app_vars >>

NextTile ==
    \/ TextVertical
    \/ TextSkipped
    \/ TileSetup
    \/ DrawTile
    \/ TilesDone

SpecTile == InitTile /\ [][NextTile]_vars

\* the script runs on: a step that can be taken is taken
SpecTileLive == SpecTile /\ WF_vars(NextTile)

(***************************************************************************)
(* Claims about the text tiling (SpecTile).                                *)
(***************************************************************************)
\* the tiling loop has finished drawing a text of width >= 1 with a spacing
\* the slider offers on a canvas at least as wide as the text
TilingCase ==
    /\ tl.pc = "done"
    /\ tl.text_width >= 1 /\ tl.text_height > 0
    /\ tl.spacing \in SliderSpacings
    /\ tl.width >= tl.text_width

\* some drawn tile's glyph run [x, x + text_width) holds column c
GlyphCovers(c) ==
    \E n \in 1..Len(tl.drawn) : tl.drawn[n] <= c /\ c < tl.drawn[n] + tl.text_width

\* some drawn tile's period [x, x + text_width + spacing) holds column c
PeriodCovers(c) ==
    \E n \in 1..Len(tl.drawn) :
        tl.drawn[n] <= c /\ c < tl.drawn[n] + tl.text_width + tl.spacing

\* C1 as stated: the drawn tiles cover column 0 and column Cw - 1 of the
\* canvas, so there is no gap at either edge.
C1_TilesCoverBothEdges ==
    TilingCase => GlyphCovers(0) /\ GlyphCovers(tl.width - 1)

\* C1 as amended: the first tile is drawn at x = -text_width, wholly left of
\* the canvas, so column 0 is never covered; column 0 and column Cw - 1 each
\* lie in the period [x, x + text_width + spacing) of a drawn tile, so the
\* gap at either edge is at most `spacing` columns wide.
C1_TilesReachBothEdges ==
    TilingCase =>
        /\ tl.drawn # << >>
        /\ tl.drawn[1] = 0 - tl.text_width
        /\ ~GlyphCovers(0)
        /\ PeriodCovers(0)
        /\ PeriodCovers(tl.width - 1)

\* a finished tiling of several tiles that leaves the right edge uncovered
C1_Witness ==
    /\ TilingCase
    /\ Len(tl.drawn) >= 3
    /\ ~GlyphCovers(tl.width - 1)
    /\ PeriodCovers(tl.width - 1)

(***************************************************************************)
(* Claims about the logo (SpecLogo).                                       *)
(***************************************************************************)
Max1(n) == IF n > 1 THEN n ELSE 1

\* r is num/den rounded to a nearest integer (either neighbour at a tie)
IsNearest(r, num, den) ==
    /\ 2 * (r * den - num) <= den
    /\ 2 * (num - r * den) <= den

\* t is num/den with its fraction cut off, or, when num/den is an integer
\* that the doubles of the computation fall just short of, that integer - 1
IsTruncated(t, num, den) ==
    /\ t * den <= num
    /\ num <= (t + 1) * den
    /\ (num = (t + 1) * den => \A e \in 0..8 : Pow2(e) % den # 0)

LogoSized == lg.pc \in {"resize", "position", "backdrop", "logo", "done"}

\* the scenario of the specification: logo 200x100, product 1000x800, scale 0.15
LogoScenario ==
    /\ lg.width = 1000 /\ lg.height = 800 /\ lg.scale_pct = DEFAULT_LOGO_SCALE_PCT
    /\ lg.logo_w = 200 /\ lg.logo_h = 100

\* C2 as stated: target_w = max(1, round(W * s)) and
\* target_h = max(1, round(target_w * lh / lw)), aspect ratio 1 when lw = 0;
\* the scenario gives 150 and 75.
C2_TargetSizeRounds ==
    LogoSized =>
        /\ \E r \in 0..lg.width :
              /\ IsNearest(r, lg.width * lg.scale_pct, 100)
              /\ lg.target_width = Max1(r)
        /\ IF lg.logo_w = 0
           THEN lg.target_height = Max1(lg.target_width)
           ELSE \E u \in 0..(lg.target_width * lg.logo_h) :
                  /\ IsNearest(u, lg.target_width * lg.logo_h, lg.logo_w)
                  /\ lg.target_height = Max1(u)
        /\ (LogoScenario => lg.target_width = 150 /\ lg.target_height = 75)

\* C2 as amended: the target size is cut off, not rounded:
\* target_w = max(1, int(W * s)) and target_h = max(1, int(target_w * lh / lw)),
\* where int() drops the fraction of the floating-point product (so the
\* result never exceeds the exact product unless it is the minimum 1, and is
\* one less than an exact integer product that the doubles fall short of);
\* aspect ratio 1 when lw = 0; the scenario gives 150 and 75.
C2_TargetSizeTruncates ==
    LogoSized =>
        /\ \E t \in 0..lg.width :
              /\ IsTruncated(t, lg.width * lg.scale_pct, 100)
              /\ lg.target_width = Max1(t)
        /\ IF lg.logo_w = 0
           THEN lg.target_height = Max1(lg.target_width)
           ELSE \E u \in 0..(lg.target_width * lg.logo_h) :
                  /\ IsTruncated(u, lg.target_width * lg.logo_h, lg.logo_w)
                  /\ lg.target_height = Max1(u)
        /\ (LogoScenario => lg.target_width = 150 /\ lg.target_height = 75)

\* a target width above 1 whose exact product has a fraction of more than
\* one half: rounding and truncation differ
C2_Witness ==
    /\ lg.pc = "done"
    /\ lg.target_width > 1
    /\ 2 * ((lg.width * lg.scale_pct) % 100) > 100

\* C3: the target width and height, and the size of the resized logo, are
\* at least 1 pixel, also when the products truncate to 0.
C3_TargetAtLeastOne ==
    LogoSized =>
        /\ lg.target_width >= 1
        /\ lg.target_height >= 1
        /\ (lg.pc # "resize" => lg.resized[1] >= 1 /\ lg.resized[2] >= 1)

\* both products truncate to 0 and the logo is resized to 1x1
C3_Witness ==
    /\ lg.pc = "done"
    /\ lg.width * lg.scale_pct < 100
    /\ lg.logo_w > 0 /\ lg.target_width * lg.logo_h < lg.logo_w
    /\ lg.resized = <<1, 1>>

LogoPlaced == lg.pc \in {"backdrop", "logo", "done"}

\* C4: the paste origin is exactly (W - tw - p, H - th - p), negative when
\* the logo and padding exceed the image; the scenario with padding 30 gives
\* (820, 695); the backdrop, when enabled, is pasted at the origin shifted
\* by (2, 2), before the logo.
C4_LogoBottomRightUnclamped ==
    /\ LogoPlaced =>
          /\ lg.logo_position[1] = lg.width - lg.resized[1] - lg.padding
          /\ lg.logo_position[2] = lg.height - lg.resized[2] - lg.padding
          /\ (LogoScenario /\ lg.padding = 30 => lg.logo_position = <<820, 695>>)
    /\ lg.pc = "done" =>
          /\ lg.layer[Len(lg.layer)] = Paste("logo", lg.logo_position, lg.resized)
          /\ IF lg.backdrop
             THEN /\ Len(lg.layer) = 2
                  /\ lg.layer[1] = Paste("backdrop",
                                         << lg.logo_position[1] + 2,
                                            lg.logo_position[2] + 2 >>,
                                         lg.resized)
             ELSE Len(lg.layer) = 1

\* a logo with backdrop pasted at a negative x
C4_Witness ==
    /\ lg.pc = "done"
    /\ lg.backdrop
    /\ lg.logo_position[1] < 0
    /\ Len(lg.layer) = 2

(***************************************************************************)
(* Authentication, lines 30-58.                                            *)
(***************************************************************************)
\* the passwords a user types
Passwords == {"", "guess", "letmein"}

\* hashlib.sha256(password.encode()).hexdigest()
Sha256Hex(password) ==
    CASE password = "" ->
           "e3b0c44298fc1c149afbf4c8996fb92427ae41e4649b934ca495991b7852b855"
      [] password = "guess" ->
           "f1abe1b083d12d181ae136cfc75b8d18a8ecb43ac4e9d1a36d6a9c75b6016b61"
      [] password = "letmein" ->
           "1c8bfe8f801d79745c4631d09fff36c82aa37fc4cce4fc946683d7b336b63032"
      [] password = "hunter2" ->
           "f52fbd32b2b3b86ff88ef6c490628285f482af15ddcb29541f94bcf526a3f6c7"

\* what st.secrets may hold: nothing, the hash of a password the user knows,
\* the hash of one the user does not know
SecretStores ==
    { {},
      { << "APP_PASSWORD_HASH", Sha256Hex("letmein") >> },
      { << "APP_PASSWORD_HASH", Sha256Hex("hunter2") >> } }

\* "APP_PASSWORD_HASH" in st.secrets
HasSecret == \E e \in secrets : e[1] = "APP_PASSWORD_HASH"

\* st.secrets["APP_PASSWORD_HASH"]
APP_PASSWORD_HASH == (CHOOSE e \in secrets : e[1] = "APP_PASSWORD_HASH")[2]

(***************************************************************************)
(* Files.  An uploaded file has a name, a MIME type and a body.  A body is *)
(* an image (which Image.open decodes; img_fault names an exception its    *)
(* processing raises before ("early") or after ("late") the text step,     *)
(* text_fault one its text step raises), an archive with its members, an   *)
(* archive that opens and refuses to extract ("locked_zip"), or bytes      *)
(* that are neither ("junk").  An upload is unwritable when open(img_path, *)
(* "wb") fails for it.                                                     *)
(***************************************************************************)
Body(kind, img_fault, text_fault, members) ==
    [kind |-> kind, size |-> <<1000, 800>>, img_fault |-> img_fault,
     text_fault |-> text_fault, members |-> members]

GoodImage == Body("image", "none", "none", << >>)
Junk == Body("junk", "none", "none", << >>)

Upload(name, type, body) ==
    [name |-> name, type |-> type, body |-> body, unwritable |-> FALSE]

ImagePng == <<"image", "png">>
ImageJpeg == <<"image", "jpeg">>
OctetStream == <<"application", "octet-stream">>

\* a corrupt archive and four valid images, two of them a.png and a.jpg
BatchPool ==
    { Upload(<<"b", "a", "d", ".", "z", "i", "p">>, <<"application", "zip">>, Junk),
      Upload(<<"a", ".", "p", "n", "g">>, ImagePng, GoodImage),
      Upload(<<"a", ".", "j", "p", "g">>, ImageJpeg, GoodImage),
      Upload(<<"b", ".", "p", "n", "g">>, ImagePng, GoodImage),
      Upload(<<"c", ".", "J", "P", "G">>, ImageJpeg, GoodImage) }

\* the members of pack.ZIP: two images in a folder and a resource fork
PackMembers ==
    << [path |-> <<"s", "u", "b", "/", "a", ".", "p", "n", "g">>, body |-> GoodImage],
       [path |-> <<"s", "u", "b", "/", "b", ".", "j", "p", "e", "g">>,
        body |-> GoodImage],
       [path |-> <<"_", "_", "M", "A", "C", "O", "S", "X", "/",
                   "a", ".", "p", "n", "g">>, body |-> Junk] >>

\* files whose type and name disagree, and archives
TypePool ==
    { \* a PNG image named .zip
      Upload(<<"s", "h", "o", "t", ".", "z", "i", "p">>, ImagePng, GoodImage),
      \* a PNG image with an unrecognised type
      Upload(<<"d", ".", "p", "n", "g">>, OctetStream, GoodImage),
      Upload(<<"n", "o", "t", "e", "s", ".", "t", "x", "t">>, <<"text", "plain">>, Junk),
      \* an archive recognised by its name only
      Upload(<<"p", "a", "c", "k", ".", "Z", "I", "P">>, OctetStream,
             Body("zip", "none", "none", PackMembers)),
      Upload(<<"l", "o", "c", "k", "e", "d", ".", "z", "i", "p">>,
             <<"application", "x-zip-compressed">>,
             Body("locked_zip", "none", "none", << >>)) }

\* images whose processing fails
FaultPool ==
    { Upload(<<"u", "n", "d", ".", "p", "n", "g">>, ImagePng, Junk),
      Upload(<<"t", ".", "p", "n", "g">>, ImagePng,
             Body("image", "none", "attr", << >>)),
      Upload(<<"u", ".", "p", "n", "g">>, ImagePng,
             Body("image", "none", "exc", << >>)),
      Upload(<<"s", ".", "p", "n", "g">>, ImagePng,
             Body("image", "late", "exc", << >>)) }

\* a hidden image, an image that cannot be written, an image whose
\* processing fails before the text step, a corrupt archive
HiddenPool ==
    { Upload(<<".", "h", ".", "p", "n", "g">>, ImagePng, GoodImage),
      Upload(<<"a", ".", "p", "n", "g">>, ImagePng, GoodImage),
      [ Upload(<<"w", ".", "p", "n", "g">>, ImagePng, GoodImage)
          EXCEPT !.unwritable = TRUE ],
      Upload(<<"r", ".", "p", "n", "g">>, ImagePng,
             Body("image", "early", "none", << >>)),
      Upload(<<"b", "a", "d", ".", "z", "i", "p">>, <<"application", "zip">>, Junk) }

\* the members of nest.zip: an image, and a folder named as the output of
\* that image, with an image in it and one in a folder below
NestMembers ==
    << [path |-> <<"x", ".", "p", "n", "g">>, body |-> GoodImage],
       [path |-> <<"x", "_", "b", "r", "a", "n", "d", "e", "d", ".", "p", "n", "g",
                   "/", "z", ".", "p", "n", "g">>, body |-> GoodImage],
       [path |-> <<"x", "_", "b", "r", "a", "n", "d", "e", "d", ".", "p", "n", "g",
                   "/", "s", "u", "b", "/", "y", ".", "p", "n", "g">>,
        body |-> GoodImage] >>

\* an archive whose folders meet the outputs of its images, and an image
NestPool ==
    { Upload(<<"n", "e", "s", "t", ".", "z", "i", "p">>, <<"application", "zip">>,
             Body("zip", "none", "none", NestMembers)),
      Upload(<<"b", ".", "p", "n", "g">>, ImagePng, GoodImage) }

Pools == { BatchPool, TypePool, FaultPool, HiddenPool, NestPool }

\* the sequences of n distinct elements of S
RECURSIVE Arrangements(_, _)
Arrangements(S, n) ==
    IF n = 0 THEN { << >> }
    ELSE UNION { { << x >> \o t : t \in Arrangements(S \ {x}, n - 1) } : x \in S }

\* the lists of at most `most` files a user can have in the uploader
UploadLists(pool, most) ==
    UNION { Arrangements(pool, n) : n \in 0..(IF Cardinality(pool) < most
                                             THEN Cardinality(pool)
                                             ELSE most) }

\* path p lies in the folder d or below it
Under(d, p) ==
    /\ Len(p) > Len(d) + 1
    /\ SubSeq(p, 1, Len(d)) = d
    /\ p[Len(d) + 1] = "/"

\* the folders on the way to path p, p included
PathPrefixes(p) ==
    { SubSeq(p, 1, n - 1) : n \in { k \in 1..Len(p) : p[k] = "/" } } \cup { p }

\* os.walk is top-down: the files of a folder come before the files of the
\* folders below it, and the files below one folder come together
TopDown(s) ==
    /\ \A m, n \in 1..Len(s) :
          (Under(DirName(s[n]), s[m]) /\ DirName(s[m]) # DirName(s[n])) => n < m
    /\ \A a, b, c \in 1..Len(s) :
          (a < b /\ b < c) =>
            \A d \in PathPrefixes(DirName(s[a])) :
               (Under(d, s[a]) /\ Under(d, s[c])) => Under(d, s[b])

\* the orders in which os.walk can list a set of paths
WalkOrders(paths) ==
    { s \in Arrangements(paths, Cardinality(paths)) : TopDown(s) }

\* str.strip() for the blank character
RECURSIVE Strip(_)
Strip(s) ==
    IF s = << >> THEN s
    ELSE IF Head(s) = " " THEN Strip(Tail(s))
    ELSE IF s[Len(s)] = " " THEN Strip(SubSeq(s, 1, Len(s) - 1))
    ELSE s

\* the texts of the watermark text input: the default, and a blank
BrandNames == { <<"J", "h", "u", "m", "J", "h", "u", "m", " ">>, <<" ">> }

\* the measured width and height of the rendered text, the spacing and the
\* logo of the runs
TEXT_WIDTH == 120
TEXT_HEIGHT == 40
HORIZONTAL_SPACING == 50
LOGO_SIZE == <<200, 100>>

(***************************************************************************)
(* Directories.                                                            *)
(***************************************************************************)
\* the directory with `body` written at `path`
WriteFile(files, path, body) ==
    { f \in files : f.path # path } \cup { [path |-> path, body |-> body] }

\* zip_ref.extractall(target_dir)
RECURSIVE ExtractAll(_, _, _)
ExtractAll(files, target_dir, members) ==
    IF members = << >> THEN files
    ELSE ExtractAll(WriteFile(files, PathJoin(target_dir, Head(members).path),
                              Head(members).body),
                    target_dir, Tail(members))

Paths(files) == { f.path : f \in files }

FileAt(files, path) == CHOOSE f \in files : f.path = path

\* os.path.relpath(path, start) of a path below start
RelPath(path, start) == SubSeq(path, Len(start) + 2, Len(path))

\* f.lower().endswith(tuple(f".{ext}" for ext in ALLOWED_IMAGE_TYPES))
HasImageSuffix(name) ==
    \E suffix \in ALLOWED_IMAGE_SUFFIXES : EndsWith(Lower(name), suffix)

\* line 255: the files of PRODUCTS_DIR the loop will process
IsProcessable(path) ==
    /\ HasImageSuffix(path)
    /\ ~StartsWith(BaseName(path), <<".">>)
    /\ ~Contains(Lower(path), MACOSX)

\* lines 93-98
IsZipUpload(f) ==
    \/ f.type \in KNOWN_ZIP_MIMES
    \/ f.name # << >> /\ EndsWith(Lower(f.name), ZIP_SUFFIX)

\* line 118
IsImageUploadByExtension(f) ==
    \/ f.type # << >> /\ f.type[Len(f.type)] \in ALLOWED_IMAGE_TYPES
    \/ f.name # << >> /\ HasImageSuffix(f.name)

IsImageUpload(f) == f.type # << >> /\ f.type[Len(f.type)] \in ALLOWED_IMAGE_TYPES

\* lines 288-293 and 370-372
OutSubDir(product_path) ==
    DirName(PathJoin(OUTPUT_DIR, RelPath(product_path, PRODUCTS_DIR)))

\* lines 288-293 and 370-372
OutPath(product_path) ==
    PathJoin(DirName(PathJoin(OUTPUT_DIR, RelPath(product_path, PRODUCTS_DIR))),
             SplitExtStem(BaseName(product_path)) \o BRANDED_SUFFIX)

Message(kind, about) == [kind |-> kind, about |-> about]

(***************************************************************************)
(* The font, lines 219-237.                                                *)
(***************************************************************************)
FONT_FILENAME == <<"a", "r", "i", "a", "l", ".", "t", "t", "f">>

\* the font file of the script directory: none, a font, a file that
\* ImageFont.truetype refuses with an IOError, a file on which it raises
\* another exception
FontFiles == {"missing", "loadable", "unreadable", "broken"}

\* line 225: os.path.exists(FONT_FILENAME)
FontExists(font) == font # "missing"

\* lines 223-237: what the sidebar shows of the font.  "font_missing" is
\* the error of line 231, shown for the IOError of line 229 and for one
\* raised by line 226; "default_font" is the warning of line 232.
FontMessages(font) ==
    IF FontExists(font) /\ font = "loadable"
    THEN { Message("font_loaded", FONT_FILENAME) }
    ELSE IF ~FontExists(font) \/ font = "unreadable"
    THEN { Message("font_missing", FONT_FILENAME), Message("default_font", << >>) }
    ELSE { Message("font_error", FONT_FILENAME),
           Message("default_font_after_error", << >>) }

\* the sessions checked: each set of files at hand with one font file
Environments ==
    { << BatchPool, "missing" >>, << TypePool, "loadable" >>,
      << FaultPool, "unreadable" >>, << HiddenPool, "broken" >>,
      << NestPool, "missing" >> }
(***************************************************************************)
(* The session (Spec).  A run of the script starts when the session opens  *)
(* and after every input the user gives to a widget the last run rendered; *)
(* it runs from line 162 to the end of the script or to an st.stop().      *)
(***************************************************************************)
session_vars == << secrets, session_state, matched >>
input_vars == << logo_file, uploaded_files, brand_name, available, font_file >>
dir_vars == << products_dir, output_dir, old_products, old_output >>
prepare_vars == << any_processing_error, upload_index >>
loop_vars == << files_to_process_paths, i, processed_files, processed_count,
                error_count, attempts >>

Init ==
    /\ lg = LgOff
    /\ tl = TlOff
    /\ secrets \in SecretStores
    /\ \E e \in Environments : available = e[1] /\ font_file = e[2]
    /\ pc = "check_password"
    /\ FreshSession

\* a rerun of the script: its locals and its page are new
RunStarts(shown) ==
    /\ pc' = "check_password"
    /\ stop_at' = "running"
    /\ messages' = shown
    /\ widgets' = {}
    /\ any_processing_error' = FALSE
    /\ upload_index' = 0
    /\ files_to_process_paths' = << >>
    /\ i' = 0
    /\ processed_files' = << >>
    /\ processed_count' = 0
    /\ error_count' = 0
    /\ zip_entries' = << >>
    /\ attempts' = << >>
    /\ old_products' = Paths(products_dir.files)
    /\ old_output' = Paths(output_dir.files)
    /\ UNCHANGED << products_dir, output_dir, secrets, available, font_file, lg, tl >>

\* st.stop(), or the end of the script
RunStops(label) ==
    /\ pc' = "idle"
    /\ stop_at' = label

\* line 41: entered_hash == APP_PASSWORD_HASH
PasswordAccepted(password) == Sha256Hex(password) = APP_PASSWORD_HASH

\* lines 38-42: the on_change callback of the password input, then the rerun
EnterPassword ==
    /\ pc = "idle"
    /\ "password" \in widgets
    /\ \E password \in Passwords :
          /\ password # session_state.password
          /\ session_state' = [session_state EXCEPT
                                 !.password = password,
                                 !.authenticated = PasswordAccepted(password)]
          /\ matched' = (matched \/ Sha256Hex(password) = APP_PASSWORD_HASH)
          /\ RunStarts(IF PasswordAccepted(password) THEN {}
                       ELSE { Message("incorrect_password", << >>) })
    /\ UNCHANGED << logo_file, uploaded_files, brand_name >>

\* line 179: the logo uploader gets a file, or loses it
UploadLogo ==
    /\ pc = "idle"
    /\ "uploaders" \in widgets
    /\ \E logo \in {"none", "good", "corrupt"} :
          /\ logo # logo_file
          /\ logo_file' = logo
    /\ RunStarts({})
    /\ UNCHANGED << session_state, matched, uploaded_files, brand_name >>

\* lines 182-187: the product uploader gets another list of files
UploadProducts ==
    /\ pc = "idle"
    /\ "uploaders" \in widgets
    /\ \E files \in UploadLists(available, MaxSessionUploads) :
          /\ files # uploaded_files
          /\ uploaded_files' = files
    /\ RunStarts({})
    /\ UNCHANGED << session_state, matched, logo_file, brand_name >>

\* line 210: the watermark text is edited
EditBrandName ==
    /\ pc = "idle"
    /\ "sidebar" \in widgets
    /\ \E text \in BrandNames :
          /\ text # brand_name
          /\ brand_name' = text
    /\ RunStarts({})
    /\ UNCHANGED << session_state, matched, logo_file, uploaded_files >>

CheckPasswordOpen ==
    /\ pc = "check_password"
    /\ session_state' = [session_state EXCEPT !.has_authenticated = TRUE]
    /\ pc' = "ensure_dirs"
    /\ UNCHANGED << secrets, matched, input_vars, dir_vars, prepare_vars, loop_vars,
                    zip_entries, widgets, messages, stop_at, lg, tl >>

\* lines 30-58 and 162-163: check_password()
CheckPassword ==
    /\ pc = "check_password"
    /\ \/ \* lines 32-35
          /\ ~HasSecret
          /\ messages' = messages \cup { Message("secret_missing", << >>) }
          /\ RunStops("secret_missing")
          /\ UNCHANGED << session_state, widgets >>
       \/ \* lines 45-49
          /\ HasSecret
          /\ session_state.has_authenticated /\ session_state.authenticated
          /\ pc' = "ensure_dirs"
          /\ UNCHANGED << session_state, messages, widgets, stop_at >>
       \/ \* lines 45-55
          /\ HasSecret
          /\ ~(session_state.has_authenticated /\ session_state.authenticated)
          /\ session_state' = [session_state EXCEPT !.has_authenticated = TRUE,
                                                    !.authenticated = FALSE]
          /\ widgets' = widgets \cup {"password"}
          /\ messages' = messages \cup { Message("enter_password", << >>) }
          /\ RunStops("not_authenticated")
    /\ UNCHANGED << secrets, matched, input_vars, dir_vars, prepare_vars, loop_vars,
                    zip_entries, lg, tl >>

\* lines 168-174: os.makedirs(folder, exist_ok=True) for both directories
EnsureDirs ==
    /\ pc = "ensure_dirs"
    /\ products_dir' = [products_dir EXCEPT !.exists = TRUE]
    /\ output_dir' = [output_dir EXCEPT !.exists = TRUE]
    /\ pc' = "uploaders"
    /\ UNCHANGED << session_vars, input_vars, old_products, old_output, prepare_vars,
                    loop_vars, zip_entries, widgets, messages, stop_at, lg, tl >>

\* lines 176-196: the uploaders and the guard clauses
Uploaders ==
    /\ pc = "uploaders"
    /\ widgets' = widgets \cup {"uploaders"}
    /\ \/ /\ logo_file = "none"
          /\ messages' = messages \cup { Message("upload_logo", << >>) }
          /\ RunStops("no_logo")
       \/ /\ logo_file # "none"
          /\ uploaded_files = << >>
          /\ messages' = messages \cup { Message("upload_products", << >>) }
          /\ RunStops("no_uploads")
       \/ /\ logo_file # "none"
          /\ uploaded_files # << >>
          /\ pc' = "read_logo"
          /\ UNCHANGED << messages, stop_at >>
    /\ UNCHANGED << session_vars, input_vars, dir_vars, prepare_vars, loop_vars,
                    zip_entries, lg, tl >>

\* lines 199-237: the logo is decoded, the sidebar and the font are set up
ReadLogo ==
    /\ pc = "read_logo"
    /\ \/ \* Image.open raises: lines 437-440
          /\ logo_file = "corrupt"
          /\ messages' = messages \cup { Message("unexpected_error", << >>) }
          /\ RunStops("exception")
          /\ UNCHANGED widgets
       \/ /\ logo_file = "good"
          /\ widgets' = widgets \cup {"sidebar"}
          /\ messages' = messages \cup FontMessages(font_file)
          /\ pc' = "prepare"
          /\ UNCHANGED stop_at
    /\ UNCHANGED << session_vars, input_vars, dir_vars, prepare_vars, loop_vars,
                    zip_entries, lg, tl >>

PrepareNoClear ==
    /\ pc = "prepare"
    /\ uploaded_files # << >>
    /\ products_dir' = [products_dir EXCEPT !.exists = TRUE]
    /\ any_processing_error' = FALSE
    /\ upload_index' = 1
    /\ pc' = "prepare_files"
    /\ UNCHANGED << session_vars, input_vars, output_dir, old_products, old_output,
                    loop_vars, zip_entries, widgets, messages, stop_at, lg, tl >>

\* lines 69-86: prepare_input_images clears and recreates its target directory
PrepareClear ==
    /\ pc = "prepare"
    /\ uploaded_files # << >>
    /\ products_dir' = [exists |-> TRUE, files |-> {}]
    /\ old_products' = {}
    /\ any_processing_error' = FALSE
    /\ upload_index' = 1
    /\ pc' = "prepare_files"
    /\ UNCHANGED << session_vars, input_vars, output_dir, old_output, loop_vars,
                    zip_entries, widgets, messages, stop_at, lg, tl >>

\* lines 88-137: one uploaded file is extracted, stored or skipped
PrepareFile ==
    /\ pc = "prepare_files"
    /\ upload_index <= Len(uploaded_files)
    /\ LET f == uploaded_files[upload_index]
           stored == PathJoin(PRODUCTS_DIR, f.name)
       IN  \/ \* lines 100-108: an archive that extracts
              /\ IsZipUpload(f)
              /\ f.body.kind = "zip"
              /\ products_dir' =
                   [products_dir EXCEPT
                      !.files = ExtractAll(@, PRODUCTS_DIR, f.body.members)]
              /\ old_products' =
                   old_products \ { PathJoin(PRODUCTS_DIR, f.body.members[n].path) :
                                      n \in 1..Len(f.body.members) }
              /\ messages' = messages \cup { Message("extracted", f.name) }
              /\ UNCHANGED any_processing_error
           \/ \* lines 109-111: zipfile.BadZipFile
              /\ IsZipUpload(f)
              /\ f.body.kind \in {"image", "junk"}
              /\ messages' = messages \cup { Message("bad_zip", f.name) }
              /\ any_processing_error' = TRUE
              /\ UNCHANGED << products_dir, old_products >>
           \/ \* lines 112-115: another exception while extracting
              /\ IsZipUpload(f)
              /\ f.body.kind = "locked_zip"
              /\ messages' = messages \cup { Message("zip_error", f.name) }
              /\ any_processing_error' = TRUE
              /\ UNCHANGED << products_dir, old_products >>
           \/ \* lines 118-124: an image is written to the directory
              /\ ~IsZipUpload(f)
              /\ IsImageUpload(f)
              /\ ~f.unwritable
              /\ products_dir' =
                   [products_dir EXCEPT !.files = WriteFile(@, stored, f.body)]
              /\ old_products' = old_products \ {stored}
              /\ UNCHANGED << messages, any_processing_error >>
           \/ \* lines 125-127: the image cannot be written
              /\ ~IsZipUpload(f)
              /\ IsImageUpload(f)
              /\ f.unwritable
              /\ messages' = messages \cup { Message("save_error", f.name) }
              /\ any_processing_error' = TRUE
              /\ UNCHANGED << products_dir, old_products >>
           \/ \* lines 128-132: neither
              /\ ~IsZipUpload(f)
              /\ ~IsImageUpload(f)
              /\ messages' = messages \cup { Message("unsupported", f.name) }
              /\ UNCHANGED << products_dir, old_products, any_processing_error >>
    /\ upload_index' = upload_index + 1
    /\ UNCHANGED << session_vars, input_vars, output_dir, old_output, loop_vars,
                    zip_entries, widgets, pc, stop_at, lg, tl >>

PrepareCheckStrict ==
    /\ pc = "prepare_files"
    /\ upload_index > Len(uploaded_files)
    /\ \/ /\ ~any_processing_error
          /\ \E f \in products_dir.files : HasImageSuffix(BaseName(f.path))
          /\ messages' = messages \cup
               (IF any_processing_error THEN { Message("some_failed", << >>) } ELSE {})
          /\ pc' = "collect"
          /\ UNCHANGED stop_at
       \/ /\ \/ any_processing_error
             \/ ~\E f \in products_dir.files : HasImageSuffix(BaseName(f.path))
          /\ messages' = messages \cup
               (IF any_processing_error THEN { Message("some_failed", << >>) } ELSE {})
               \cup { Message("no_images", << >>), Message("stopping", << >>) }
          /\ RunStops("prepare_failed")
    /\ UNCHANGED << session_vars, input_vars, dir_vars, prepare_vars, loop_vars,
                    zip_entries, widgets, lg, tl >>

\* lines 139-158 and 242-245: are there image files in the directory
PrepareCheck ==
    /\ pc = "prepare_files"
    /\ upload_index > Len(uploaded_files)
    /\ \/ /\ \E f \in products_dir.files : HasImageSuffix(BaseName(f.path))
          /\ messages' = messages \cup
               (IF any_processing_error THEN { Message("some_failed", << >>) } ELSE {})
          /\ pc' = "collect"
          /\ UNCHANGED stop_at
       \/ /\ ~\E f \in products_dir.files : HasImageSuffix(BaseName(f.path))
          /\ messages' = messages \cup
               (IF any_processing_error THEN { Message("some_failed", << >>) } ELSE {})
               \cup { Message("no_images", << >>), Message("stopping", << >>) }
          /\ RunStops("prepare_failed")
    /\ UNCHANGED << session_vars, input_vars, dir_vars, prepare_vars, loop_vars,
                    zip_entries, widgets, lg, tl >>

\* lines 247-276: the image files of the directory, in the order of os.walk
CollectFiles ==
    /\ pc = "collect"
    /\ LET found == { p \in Paths(products_dir.files) : IsProcessable(p) }
       IN  \/ /\ found = {}
              /\ messages' = messages \cup { Message("none_after_filter", << >>) }
              /\ RunStops("nothing_to_process")
              /\ UNCHANGED files_to_process_paths
           \/ /\ found # {}
              /\ files_to_process_paths' \in WalkOrders(found)
              /\ pc' = "clear_output"
              /\ UNCHANGED << messages, stop_at >>
    /\ processed_files' = << >>
    /\ processed_count' = 0
    /\ error_count' = 0
    /\ UNCHANGED << session_vars, input_vars, dir_vars, prepare_vars, i, attempts,
                    zip_entries, widgets, lg, tl >>

\* lines 278-283: the output directory is cleared and recreated
ClearOutput ==
    /\ pc = "clear_output"
    /\ output_dir' = IF output_dir.exists THEN [exists |-> TRUE, files |-> {}]
                                          ELSE output_dir
    /\ old_output' = IF output_dir.exists THEN {} ELSE old_output
    /\ i' = 1
    /\ pc' = "loop"
    /\ UNCHANGED << session_vars, input_vars, products_dir, old_products,
                    prepare_vars, files_to_process_paths, processed_files,
                    processed_count, error_count, attempts, zip_entries, widgets,
                    messages, stop_at, lg, tl >>

\* lines 293-295: os.makedirs(output_sub_dir) raises when a file of the
\* output directory sits where a folder on the way to output_sub_dir is
\* needed (os.path.exists is then false)
MakedirsFails(path) ==
    \E q \in PathPrefixes(OutSubDir(path)) :
       /\ q # OutSubDir(path)
       /\ Len(q) > Len(OUTPUT_DIR)
       /\ q \in Paths(output_dir.files)

\* line 373: final_image.save(out_path) raises when output_sub_dir is a file
\* of the output directory (os.path.exists is then true and line 295 is
\* not run)
SaveBlocked(path) == OutSubDir(path) \in Paths(output_dir.files)

\* what the try block of lines 297-384 does with the image at `path`, the
\* n-th of the list: whether it is saved, how many errors it counts, what
\* it shows
ImageOutcome(path, n, body) ==
    LET base == BaseName(path)
        opened == body.kind = "image"
        reaches_text == opened /\ body.img_fault # "early"
        text_fails == /\ reaches_text
                      /\ Strip(brand_name) # << >>
                      /\ body.text_fault # "none"
        saved == reaches_text /\ body.img_fault # "late" /\ ~SaveBlocked(path)
    IN  [saved |-> saved,
         errors |-> (IF text_fails THEN 1 ELSE 0) + (IF saved THEN 0 ELSE 1),
         shown |->
            \* lines 356-363
            (IF ~text_fails THEN {}
             ELSE IF body.text_fault = "attr"
                  THEN (IF n = 1 THEN { Message("text_attribute", << >>) } ELSE {})
                  ELSE { Message("text_error", base) })
            \cup
            \* lines 378-384
            (IF ~opened THEN { Message("unidentified", base) }
             ELSE IF ~saved THEN { Message("image_error", base) }
             ELSE {}),
         text |-> reaches_text /\ Strip(brand_name) # << >> /\ ~text_fails]

\* the file the loop body saves
Branded(path, body, with_text) ==
    [path |-> OutPath(path),
     source |-> path,
     layer |-> LogoLayer(body.size[1], body.size[2], LOGO_SIZE[1], LOGO_SIZE[2],
                         DEFAULT_LOGO_SCALE_PCT, DEFAULT_PADDING, TRUE),
     tiles |-> IF with_text
               THEN TileOrigins(TEXT_WIDTH, HORIZONTAL_SPACING, body.size[1])
               ELSE << >>]

\* lines 287-387: one iteration of the processing loop; an exception of
\* line 295 is caught at lines 437-440 and ends the run
ProcessImage ==
    /\ pc = "loop"
    /\ i <= Len(files_to_process_paths)
    /\ LET path == files_to_process_paths[i]
           body == FileAt(products_dir.files, path).body
           out == ImageOutcome(path, i, body)
       IN  \/ \* lines 293-295 raise
              /\ MakedirsFails(path)
              /\ messages' = messages \cup { Message("unexpected_error", << >>) }
              /\ attempts' = Append(attempts, [path |-> path, saved |-> FALSE,
                                               errors |-> 0, shown |-> {}])
              /\ RunStops("exception")
              /\ UNCHANGED << output_dir, old_output, processed_files,
                              processed_count, error_count, i >>
           \/ \* lines 297-387
              /\ ~MakedirsFails(path)
              /\ output_dir' =
                   IF out.saved
                   THEN [output_dir EXCEPT
                           !.files = { f \in @ : f.path # OutPath(path) }
                                     \cup { Branded(path, body, out.text) }]
                   ELSE output_dir
              /\ old_output' = IF out.saved THEN old_output \ { OutPath(path) }
                                            ELSE old_output
              /\ processed_files' = IF out.saved
                                    THEN Append(processed_files, OutPath(path))
                                    ELSE processed_files
              /\ processed_count' = processed_count + (IF out.saved THEN 1 ELSE 0)
              /\ error_count' = error_count + out.errors
              /\ messages' = messages \cup out.shown
              /\ attempts' = Append(attempts, [path |-> path, saved |-> out.saved,
                                               errors |-> out.errors,
                                               shown |-> out.shown])
              /\ i' = i + 1
              /\ UNCHANGED << pc, stop_at >>
    /\ UNCHANGED << session_vars, input_vars, products_dir, old_products,
                    prepare_vars, files_to_process_paths, zip_entries, widgets,
                    lg, tl >>

\* lines 389-432: the summary, the preview and the archive to download
Finish ==
    /\ pc = "loop"
    /\ i > Len(files_to_process_paths)
    /\ \/ /\ processed_files = << >>
          /\ messages' = messages \cup { Message("none_processed", << >>) }
          /\ RunStops("none_processed")
          /\ UNCHANGED zip_entries
       \/ /\ processed_files # << >>
          /\ zip_entries' = [n \in 1..Len(processed_files) |->
                               RelPath(processed_files[n], OUTPUT_DIR)]
          /\ RunStops("completed")
          /\ UNCHANGED messages
    /\ UNCHANGED << session_vars, input_vars, dir_vars, prepare_vars, loop_vars,
                    widgets, lg, tl >>

Next ==
    \/ EnterPassword
    \/ UploadLogo
    \/ UploadProducts
    \/ EditBrandName
    \/ CheckPassword
    \/ EnsureDirs
    \/ Uploaders
    \/ ReadLogo
    \/ PrepareClear
    \/ PrepareFile
    \/ PrepareCheck
    \/ CollectFiles
    \/ ClearOutput
    \/ ProcessImage
    \/ Finish

Spec == Init /\ [][Next]_vars

(***************************************************************************)
(* One run of an authenticated session that has reached line 242, with a   *)
(* logo that decodes and up to MaxUploads files, in directories that hold  *)
(* the files of an earlier run, and without arial.ttf, which the           *)
(* repository does not ship (SpecRun).                                     *)
(***************************************************************************)
StaleProducts ==
    [exists |-> TRUE,
     files |-> { [path |-> PathJoin(PRODUCTS_DIR, <<"o", "l", "d", ".", "p", "n", "g">>),
                  body |-> GoodImage] }]

StaleOutput ==
    [exists |-> TRUE,
     files |-> { Branded(PathJoin(PRODUCTS_DIR, <<"o", "l", "d", ".", "p", "n", "g">>),
                         GoodImage, TRUE),
                 Branded(PathJoin(PRODUCTS_DIR, <<"a", ".", "p", "n", "g">>),
                         GoodImage, TRUE) }]

InitRun ==
    /\ lg = LgOff
    /\ tl = TlOff
    /\ secrets = { << "APP_PASSWORD_HASH", Sha256Hex("letmein") >> }
    /\ session_state = [has_authenticated |-> TRUE, authenticated |-> TRUE,
                        password |-> "letmein"]
    /\ matched = TRUE
    /\ widgets = {"uploaders", "sidebar"}
    /\ logo_file = "good"
    /\ available \in Pools
    /\ font_file = "missing"
    /\ uploaded_files \in UploadLists(available, MaxUploads) \ { << >> }
    /\ brand_name \in BrandNames
    /\ pc = "prepare"
    /\ stop_at = "running"
    /\ messages = FontMessages(font_file)
    /\ products_dir = StaleProducts
    /\ output_dir = StaleOutput
    /\ old_products = Paths(StaleProducts.files)
    /\ old_output = Paths(StaleOutput.files)
    /\ any_processing_error = FALSE
    /\ upload_index = 0
    /\ files_to_process_paths = << >>
    /\ i = 0
    /\ processed_files = << >>
    /\ processed_count = 0
    /\ error_count = 0
    /\ zip_entries = << >>
    /\ attempts = << >>

NextRun ==
    \/ PrepareClear
    \/ PrepareFile
    \/ PrepareCheck
    \/ CollectFiles
    \/ ClearOutput
    \/ ProcessImage
    \/ Finish

SpecRun == InitRun /\ [][NextRun]_vars


(***************************************************************************)
(* Properties of one run (SpecRun).                                        *)
(***************************************************************************)
\* the run went through the whole loop
LoopEnded == pc = "idle" /\ stop_at \in {"completed", "none_processed"}

\* prepare_input_images has gone through all the uploads
UploadsHandled == upload_index > Len(uploaded_files)

\* a step of the loop body raises for the image at `path`
Fails(path) ==
    LET body == FileAt(products_dir.files, path).body
    IN  \/ body.kind # "image"
        \/ body.img_fault # "none"
        \/ body.text_fault # "none" /\ Strip(brand_name) # << >>
        \/ SaveBlocked(path)

AttemptsInOrder ==
    /\ Len(attempts) = Len(files_to_process_paths)
    /\ \A n \in 1..Len(attempts) : attempts[n].path = files_to_process_paths[n]

SavedAttempts == { n \in 1..Len(attempts) : attempts[n].saved }

\* C5: a run that has entered the loop over the N images goes through it
\* to its end; when it has ended, all N were attempted in
\* the order of the list; every image a step of which failed has a message
\* on the page and at least one error counted, and error_count is at least
\* the number of such images; every image no step of which failed is saved,
\* and processed_count is the number of saved images.
C5_FailuresIsolated ==
    /\ (pc = "idle" /\ Len(attempts) > 0) => LoopEnded
    /\ LoopEnded =>
      /\ AttemptsInOrder
      /\ \A n \in 1..Len(attempts) :
            IF Fails(attempts[n].path)
            THEN attempts[n].shown # {} /\ attempts[n].errors >= 1
            ELSE attempts[n].saved /\ attempts[n].errors = 0
      /\ error_count >= Cardinality({ n \in 1..Len(attempts) :
                                        Fails(attempts[n].path) })
      /\ processed_count = Cardinality(SavedAttempts)

\* an upload that is taken for an archive and is none
CorruptZip(f) == IsZipUpload(f) /\ f.body.kind = "junk"

\* an upload declared and named as an image, that decodes, is processed
\* without a fault and can be written
ValidImage(f) ==
    /\ f.type # << >> /\ f.type[Len(f.type)] \in ALLOWED_IMAGE_TYPES
    /\ HasImageSuffix(f.name)
    /\ f.body = GoodImage
    /\ ~f.unwritable

\* the loop does not leave the image out (line 255)
Visible(f) ==
    /\ ~StartsWith(f.name, <<".">>)
    /\ ~Contains(Lower(PathJoin(PRODUCTS_DIR, f.name)), MACOSX)

UploadIndexes == 1..Len(uploaded_files)

DistinctNames ==
    \A m, n \in UploadIndexes :
       uploaded_files[m].name = uploaded_files[n].name => m = n

ValidImages == { n \in UploadIndexes : ValidImage(uploaded_files[n]) }

\* what C6 promises of a run whose uploads are images and corrupt archives
CorruptZipsTolerated ==
    /\ UploadsHandled =>
         \A n \in UploadIndexes :
            LET f == uploaded_files[n]
            IN  IF CorruptZip(f)
                THEN Message("bad_zip", f.name) \in messages
                ELSE [path |-> PathJoin(PRODUCTS_DIR, f.name), body |-> f.body]
                       \in products_dir.files
    /\ pc = "idle" => /\ stop_at = "completed"
                      /\ processed_count = Cardinality(ValidImages)

C7_OneOutputPerImage ==
    (pc = "idle" /\ stop_at = "completed") =>
      /\ \A n \in SavedAttempts :
            \E f \in output_dir.files :
               /\ f.source = attempts[n].path
               /\ f.path = PathJoin(DirName(PathJoin(OUTPUT_DIR,
                                       RelPath(attempts[n].path, PRODUCTS_DIR))),
                                    SplitExtStem(BaseName(attempts[n].path))
                                      \o BRANDED_SUFFIX)
      /\ Cardinality(output_dir.files) = processed_count

\* how prepare_input_images handled the upload f, as the page and the input
\* directory show
Handling(f) ==
    IF \E kind \in {"extracted", "bad_zip", "zip_error"} :
          Message(kind, f.name) \in messages
    THEN "archive"
    ELSE IF Message("unsupported", f.name) \in messages
    THEN "skipped"
    ELSE IF \/ [path |-> PathJoin(PRODUCTS_DIR, f.name), body |-> f.body]
                 \in products_dir.files
            \/ Message("save_error", f.name) \in messages
    THEN "image"
    ELSE "none"

DeclaredZip(f) == f.type \in KNOWN_ZIP_MIMES
DeclaredImage(f) == f.type # << >> /\ f.type[Len(f.type)] \in ALLOWED_IMAGE_TYPES
NamedZip(f) == EndsWith(Lower(f.name), ZIP_SUFFIX)
NamedImage(f) == HasImageSuffix(f.name)

\* content-type first, extension second
KindTypeFirst(f) ==
    IF DeclaredZip(f) THEN "archive"
    ELSE IF DeclaredImage(f) THEN "image"
    ELSE IF NamedZip(f) THEN "archive"
    ELSE IF NamedImage(f) THEN "image"
    ELSE "skipped"

\* archive by content-type or by extension; image by content-type only
KindZipFirst(f) ==
    IF DeclaredZip(f) \/ NamedZip(f) THEN "archive"
    ELSE IF DeclaredImage(f) THEN "image"
    ELSE "skipped"

\* C8 as stated: every upload is handled as its content-type says, and as
\* its extension says only when the content-type says nothing; an upload
\* that matches neither is skipped with a warning and the others are still
\* handled.
C8_ContentTypeFirst ==
    /\ \A n \in UploadIndexes :
          n < upload_index => Handling(uploaded_files[n]) = KindTypeFirst(uploaded_files[n])
    /\ pc = "idle" => UploadsHandled

\* C8, amended: an upload is handled as an archive when its content-type is
\* a known ZIP type or its name ends in .zip (whatever the case), even if
\* its content-type names an image; otherwise as an image when the subtype
\* of its content-type is png, jpg or jpeg; otherwise it is skipped with a
\* warning, whatever its extension; the others are still handled.
C8_ZipFirstImageByType ==
    /\ \A n \in UploadIndexes :
          n < upload_index => Handling(uploaded_files[n]) = KindZipFirst(uploaded_files[n])
    /\ pc = "idle" => UploadsHandled

\* C8: a run handled an image named .zip, an image with an unrecognised
\* content-type and a text file, and went on
C8_Witness ==
    /\ UploadsHandled
    /\ \E l, m, n \in UploadIndexes :
          /\ l < m
          /\ DeclaredImage(uploaded_files[l]) /\ NamedZip(uploaded_files[l])
          /\ Handling(uploaded_files[l]) = "archive"
          /\ ~DeclaredImage(uploaded_files[m]) /\ NamedImage(uploaded_files[m])
          /\ Handling(uploaded_files[m]) = "skipped"
          /\ ~NamedImage(uploaded_files[n]) /\ ~NamedZip(uploaded_files[n])
          /\ Handling(uploaded_files[n]) = "skipped"

(***************************************************************************)
(* Properties of the session (Spec).                                       *)
(***************************************************************************)
\* the ends of a run with a logo and uploaded files: the loop ended, or no
\* usable image was found
RunEnds == {"completed", "none_processed", "prepare_failed", "nothing_to_process"}

\* C9 as stated: when a run with a logo and uploaded files ends, completed
\* or stopped because no usable image was found, neither directory holds a
\* file that an earlier run left there.
C9_BothDirsClearedEachRun ==
    (pc = "idle" /\ stop_at \in RunEnds) => old_products = {} /\ old_output = {}

\* C9, amended: a run with a logo and uploaded files clears the input
\* directory before it stores a file, and the output directory only after
\* it has found an image to process, before it saves one.  When the run
\* ends, the input directory holds no file of an earlier run; the output
\* directory holds none if the loop was reached, and is as the earlier runs
\* left it if the run stopped because no usable image was found.
C9_InputClearedOutputWhenProcessing ==
    /\ old_products \subseteq Paths(products_dir.files)
    /\ old_output \subseteq Paths(output_dir.files)
    /\ pc \in {"prepare_files", "collect", "clear_output", "loop"} => old_products = {}
    /\ pc = "loop" => old_output = {}
    /\ (pc = "idle" /\ stop_at \in RunEnds) => old_products = {}
    /\ (pc = "idle" /\ stop_at \in {"completed", "none_processed"}) => old_output = {}
    /\ (pc = "idle" /\ stop_at \in {"prepare_failed", "nothing_to_process"}) =>
          old_output = Paths(output_dir.files)

\* C9: a run stopped because no usable image was found, after an earlier
\* run had stored images and saved outputs
C9_Witness ==
    /\ pc = "idle"
    /\ stop_at \in {"prepare_failed", "nothing_to_process"}
    /\ uploaded_files # << >>
    /\ old_output # {}
    /\ old_products = {}

\* the steps of a run that create or clear a directory, read an upload or
\* process an image
Processing ==
    \/ products_dir' # products_dir
    \/ output_dir' # output_dir
    \/ upload_index' > upload_index
    \/ Len(attempts') > Len(attempts)

\* C10: in a session, a step that creates or clears a working directory,
\* reads an upload or processes an image is taken only when the flag
\* 'authenticated' is true; the flag is true only if a password was entered
\* whose SHA-256 hash equals the reference hash; without a reference hash in
\* the secret store the run stops at once, and no directory exists.
C10_AuthenticationGate ==
    /\ [][Processing => session_state.has_authenticated /\ session_state.authenticated]_vars
    /\ [](session_state.authenticated => matched /\ HasSecret)
    /\ [](pc \notin {"check_password", "idle"} =>
            session_state.has_authenticated /\ session_state.authenticated)
    /\ [](~HasSecret => /\ pc \in {"check_password", "idle"}
                        /\ stop_at \in {"none", "running", "secret_missing"}
                        /\ ~products_dir.exists /\ ~output_dir.exists
                        /\ upload_index = 0 /\ attempts = << >>)

\* C10: a wrong password was entered and the run stopped at the password
\* input, with no directory created
C10_Witness ==
    /\ pc = "idle"
    /\ stop_at = "not_authenticated"
    /\ HasSecret
    /\ session_state.password # ""
    /\ Sha256Hex(session_state.password) # APP_PASSWORD_HASH
    /\ ~session_state.authenticated
    /\ ~products_dir.exists

(***************************************************************************)
(* Termination of the text tiling (SpecTileLive).                          *)
(***************************************************************************)
\* the loop of lines 351-352 has been set up for a text that is drawn
TilingSetUp == tl.pc \in {"loop", "done"} /\ tl.text_width >= 1 /\ tl.text_height >= 1

\* the tiles drawn so far are start_x, start_x + step, ..., all of them
\* below width + text_width
TilesArithmetic ==
    /\ \A n \in 1..Len(tl.drawn) :
          /\ tl.drawn[n] = tl.start_x + (n - 1) * tl.step
          /\ tl.drawn[n] < tl.width + tl.text_width
    /\ \A n \in 1..(Len(tl.drawn) - 1) : tl.drawn[n] < tl.drawn[n + 1]

\* C11: for every text_width >= 1, every spacing and every canvas width the
\* tiling loop ends; step = max(1, text_width + spacing) is at least 1,
\* start_x = -(text_width mod step), and the origins drawn are exactly
\* start_x, start_x + step, start_x + 2*step, ... below width + text_width,
\* a strictly increasing sequence: none above the bound is drawn, and when
\* the loop has ended the next value of the sequence is not below the bound.
C11_TilingTerminates ==
    /\ [](TilingSetUp =>
            /\ tl.step >= 1
            /\ tl.step = Max1(tl.text_width + tl.spacing)
            /\ tl.start_x = 0 - (tl.text_width % tl.step)
            /\ TilesArithmetic
            /\ tl.pc = "done" =>
                 tl.start_x + Len(tl.drawn) * tl.step >= tl.width + tl.text_width)
    /\ <>[](tl.pc = "done")

\* C11: text 120 wide, spacing 50, canvas 1000: the loop has ended with step
\* 170, first origin -120 and last origin 1070
C11_Witness ==
    /\ tl.pc = "done"
    /\ tl.text_width = 120 /\ tl.spacing = 50 /\ tl.width = 1000
    /\ tl.step = 170
    /\ Len(tl.drawn) = 8
    /\ tl.drawn[1] = 0 - 120
    /\ tl.drawn[Len(tl.drawn)] >= 1000

(***************************************************************************)
(* The counters of the processing loop (SpecRun).                          *)
(***************************************************************************)
\* the text step of the image at `path` is reached and raises
TextStepFails(path) ==
    LET body == FileAt(products_dir.files, path).body
    IN  /\ body.kind = "image"
        /\ body.img_fault # "early"
        /\ Strip(brand_name) # << >>
        /\ body.text_fault # "none"

\* the counters between two iterations, Len(attempts) images visited
CountersBalanced ==
    /\ processed_count = Len(processed_files)
    /\ processed_count <= Len(attempts)
    /\ Len(attempts) <= processed_count + error_count
    /\ processed_count + error_count <= 2 * Len(attempts)

\* what one iteration adds to the counters
CountersStep ==
    IF Len(attempts') = Len(attempts) + 1
    THEN LET visit == attempts'[Len(attempts')]
             text_failed == IF TextStepFails(visit.path) THEN 1 ELSE 0
             saved == processed_count' - processed_count
             errors == error_count' - error_count
         IN  /\ saved \in {0, 1}
             /\ saved = 1 <=> visit.saved
             /\ saved + (errors - text_failed) = 1
             /\ errors - text_failed \in {0, 1}
             /\ (text_failed = 1 /\ visit.saved) => saved = 1 /\ errors = 1
    ELSE /\ processed_count' = processed_count
         /\ error_count' = error_count

\* C12: between the iterations of the loop processed_count is the length
\* of processed_files and at most the number of images visited; every
\* visited image adds one to processed_count if it is saved and one to
\* error_count if it fails, and one more to error_count if its text step
\* failed, an image saved after a failed text step adding one to each;
\* nothing else changes the counters; so with N images visited
\* N <= processed_count + error_count <= 2N, also when the loop has ended.
C12_CounterAccounting ==
    /\ [][CountersStep]_vars
    /\ [](CountersBalanced)
    /\ [](LoopEnded =>
            /\ Len(attempts) = Len(files_to_process_paths)
            /\ Len(files_to_process_paths) <= processed_count + error_count
            /\ processed_count + error_count <= 2 * Len(files_to_process_paths))
=============================================================================
